---- MODULE Spec2Model ----
(***************************************************************************)
(* MediTriage classification engine (src/python/meditriage-classifier.py). *)
(*                                                                         *)
(* A complaint text is a sequence of words (the text split at blanks).     *)
(* Python's `kw in text_lower` is decided on that sequence: a keyword is   *)
(* its own sequence of word fragments and occurs in the text when its      *)
(* fragments occur in consecutive words.  Confidence values are kept in    *)
(* hundredths (0.6 is 60); the float sums 0.5 + n * 0.1 of the source      *)
(* compare with 0.6 and 0.8 exactly as these integers do.  Dynamically     *)
(* typed values that the code passes through unchecked carry a type tag    *)
(* ([t |-> "list", v |-> ...]).  Wall-clock values (processing_time,       *)
(* timestamp) are not part of the state.                                   *)
(***************************************************************************)
EXTENDS Integers, Sequences, FiniteSets, TLC

VARIABLES
    client,        \* self.client is set (a provider client is configured)
    text,          \* classify_single: complaint_text
    pc,            \* classify_single: "start", "fallback", "done", "idle"
    response,      \* classify_single: what the provider call produced
    result,        \* classify_single: the ClassificationResult returned
    path,          \* classify_single: which scorer built the result
    complaints,    \* classify_batch: the input list
    idx,           \* classify_batch: index of the next item (0-based)
    results,       \* classify_batch: the list of records built so far
    complaint_id,  \* classify_batch: the local variable complaint_id
    sleeps,        \* classify_batch: indices after which time.sleep ran
    bpc,           \* classify_batch: "loop", "returned", "raised", "evaluated", "idle"
    metrics,       \* evaluate_accuracy: the metrics returned
    raw,           \* preprocessor: the raw complaint text
    cleaned,       \* preprocessor: clean_text(raw)
    recleaned,     \* preprocessor: clean_text(cleaned)
    features,      \* preprocessor: the features dict
    predicted_category, \* preprocessor: what _predict_category returned
    ppc            \* preprocessor: "start", "cleaned", "recleaned", "counted",
                   \* "extracted", "predicted", "idle"

vars == <<client, text, pc, response, result, path, complaints, idx, results,
          complaint_id, sleeps, bpc, metrics, raw, cleaned, recleaned, features,
          predicted_category, ppc>>

classifyVars == <<text, pc, response, result, path>>
batchVars == <<complaints, idx, results, complaint_id, sleeps, bpc, metrics>>
preVars == <<raw, cleaned, recleaned, features, predicted_category, ppc>>

-----------------------------------------------------------------------------
(* Bounds of the model *)

\* Longest complaint text, in words, of the rule-scorer specification.
MaxWords == 3

\* Longest batch.
MaxBatch == 3

\* Words complaint texts are drawn from (mixed case, one word that merely
\* contains a keyword, a two-word keyword, a word that is no keyword).
Vocab == {"Rude", "dismissive", "error", "misdiagnosis", "drunk", "mental", "health",
          "EMERGENCY", "pattern", "minor", "maybe", "doctor"}

RECURSIVE SeqsUpTo(_, _)
SeqsUpTo(S, n) ==
    IF n = 0 THEN {<<>>}
    ELSE LET shorter == SeqsUpTo(S, n - 1)
         IN  shorter \cup {Append(s, x) : s \in {q \in shorter : Len(q) = n - 1}, x \in S}

-----------------------------------------------------------------------------
(* Python values *)

PyNone == [t |-> "null"]
PyStr(s) == [t |-> "str", v |-> s]
PyBool(b) == [t |-> "bool", v |-> b]
PyNum(n) == [t |-> "num", v |-> n]
PyList(s) == [t |-> "list", v |-> s]

Take(s, n) == SubSeq(s, 1, IF Len(s) < n THEN Len(s) ELSE n)

Min(a, b) == IF a < b THEN a ELSE b
Max3(a, b, c) == IF a >= b /\ a >= c THEN a ELSE IF b >= c THEN b ELSE c

-----------------------------------------------------------------------------
(* str.lower and substring membership *)

LowerWord(w) ==
    CASE w = "Rude" -> "rude"
      [] w = "EMERGENCY" -> "emergency"
      [] OTHER -> w

Lower(t) == [i \in 1..Len(t) |-> LowerWord(t[i])]

\* The words of a keyword or phrase of the source's lists.
KeywordWords(k) ==
    CASE k = "mental health" -> <<"mental", "health">>
      [] k = "not sure" -> <<"not", "sure">>
      [] k = "might be" -> <<"might", "be">>
      [] OTHER -> <<k>>

\* Word w has fragment f as a substring.
WordHas(w, f) == w = f \/ <<w, f>> \in {<<"misdiagnosis", "misdiagnos">>}

\* `k in t` of the source, t a lower-cased text.
Contains(t, k) ==
    LET kw == KeywordWords(k)
    IN  \E i \in 1..(Len(t) - Len(kw) + 1) :
            \A j \in 1..Len(kw) : WordHas(t[i + j - 1], kw[j])

AnyIn(t, ks) == \E n \in 1..Len(ks) : Contains(t, ks[n])

-----------------------------------------------------------------------------
(* _classify_with_rules *)

conduct_keywords == <<"rude", "inappropriate", "unprofessional", "dismissive",
                      "disrespectful", "harassment", "boundary", "behavior">>
competence_keywords == <<"error", "mistake", "misdiagnos", "wrong", "incorrect",
                         "failed", "incompetent", "negligent">>
health_keywords == <<"impaired", "drunk", "intoxicated", "substance", "unfit",
                     "unstable", "mental health", "addiction">>

severity_high == <<"death", "serious", "emergency", "critical", "dangerous">>
severity_medium == <<"repeated", "multiple", "pattern", "concerning">>
severity_low == <<"minor", "slight", "small">>
severity_levels == <<"high", "medium", "low">>
severity_keywords(level) ==
    CASE level = "high" -> severity_high
      [] level = "medium" -> severity_medium
      [] level = "low" -> severity_low

ambiguous_phrases == <<"not sure", "maybe", "possibly", "might be", "unclear">>

URGENT == "URGENT: Immediate action required"

KeywordCap == 5
ReasoningCap == 3

\* The keywords of list ks found in t, in list order.
Found(t, ks) == SelectSeq(ks, LAMBDA k : Contains(t, k))

\* The if/elif chain that picks the category from the three scores.
ChooseCategory(conduct_score, competence_score, health_score) ==
    IF Max3(conduct_score, competence_score, health_score) = 0 THEN "NEEDS_REVIEW"
    ELSE IF conduct_score > competence_score /\ conduct_score > health_score THEN "CONDUCT"
    ELSE IF competence_score > health_score THEN "COMPETENCE"
    ELSE "HEALTH"

\* The confidence set in the chosen branch, in hundredths.
BranchConfidence(category, conduct_score, competence_score, health_score) ==
    CASE category = "NEEDS_REVIEW" -> 30
      [] category = "CONDUCT" -> Min(90, 50 + conduct_score * 10)
      [] category = "COMPETENCE" -> Min(90, 50 + competence_score * 10)
      [] category = "HEALTH" -> Min(90, 50 + health_score * 10)

BranchAction(category) ==
    CASE category = "NEEDS_REVIEW" -> "Manual review required"
      [] category = "CONDUCT" -> "Review professional standards policy"
      [] category = "COMPETENCE" -> "Clinical review recommended"
      [] category = "HEALTH" -> "Immediate fitness assessment required"

\* A medium match overrides an earlier HIGH.
SeverityStepMediumOverrides(t, level, st) ==
    IF AnyIn(t, severity_keywords(level))
    THEN IF level = "high"
         THEN [severity |-> "HIGH", actions |-> <<URGENT>> \o st.actions]
         ELSE IF level = "medium"
              THEN [st EXCEPT !.severity = "MEDIUM"]
              ELSE st
    ELSE st

\* One iteration of the loop over severity_keywords.items().
SeverityStep(t, level, st) ==
    IF AnyIn(t, severity_keywords(level))
    THEN IF level = "high"
         THEN [severity |-> "HIGH", actions |-> <<URGENT>> \o st.actions]
         ELSE IF level = "medium" /\ st.severity # "HIGH"
              THEN [st EXCEPT !.severity = "MEDIUM"]
              ELSE st
    ELSE st

RECURSIVE SeverityScan(_, _, _)
SeverityScan(t, n, st) ==
    IF n > Len(severity_levels) THEN st
    ELSE SeverityScan(t, n + 1, SeverityStep(t, severity_levels[n], st))

\* The confidence test written with <= instead of <.
RequiresReviewInclusive(t, confidence) == AnyIn(t, ambiguous_phrases) \/ confidence <= 60

RequiresReview(t, confidence) == AnyIn(t, ambiguous_phrases) \/ confidence < 60

ClassifyWithRules(complaint_text) ==
    LET text_lower == Lower(complaint_text)
        conduct_found == Found(text_lower, conduct_keywords)
        competence_found == Found(text_lower, competence_keywords)
        health_found == Found(text_lower, health_keywords)
        keywords_found == conduct_found \o competence_found \o health_found
        conduct_score == Len(conduct_found)
        competence_score == Len(competence_found)
        health_score == Len(health_found)
        category == ChooseCategory(conduct_score, competence_score, health_score)
        confidence == BranchConfidence(category, conduct_score, competence_score, health_score)
        sev == SeverityScan(text_lower, 1,
                            [severity |-> "LOW", actions |-> <<BranchAction(category)>>])
    IN  [category |-> category,
         confidence |-> confidence,
         reasoning |-> PyStr([category |-> category,
                              keywords |-> Take(keywords_found, ReasoningCap)]),
         keywords |-> PyList(Take(keywords_found, KeywordCap)),
         severity |-> sev.severity,
         requires_human_review |-> PyBool(RequiresReview(text_lower, confidence)),
         suggested_actions |-> PyList(sev.actions),
         secondary_category |-> "None"]

-----------------------------------------------------------------------------
(* The provider call and _classify_with_ai *)

ComplaintCategory == {"CONDUCT", "COMPETENCE", "HEALTH", "NEEDS_REVIEW", "MONITORING", "UNKNOWN"}
SeverityLevel == {"HIGH", "MEDIUM", "LOW"}

\* A response body that is the JSON object the prompt asks for.
ValidBody ==
    [category |-> PyStr("CONDUCT"),
     confidence |-> PyNum(85),
     reasoning |-> PyStr("boundary violation"),
     keywords |-> PyList(<<"k1", "k2">>),
     severity |-> PyStr("HIGH"),
     requires_human_review |-> PyBool(TRUE),
     suggested_actions |-> PyList(<<"a1">>),
     secondary_category |-> PyNone]

Without(obj, k) == [x \in (DOMAIN obj) \ {k} |-> obj[x]]

RequiredKeys == {"category", "confidence", "reasoning", "keywords", "severity",
                 "requires_human_review", "suggested_actions"}

\* Values the provider may put in one field of an otherwise valid body.
FieldValues(k) ==
    CASE k = "category" -> {PyStr("HEALTH"), PyStr("UNKNOWN"), PyStr("BOGUS"), PyNum(1)}
      [] k = "confidence" -> {PyNum(0), PyNum(100), PyNum(150), PyNum(-20), PyStr("0.5"),
                              PyStr("high"), PyBool(TRUE), PyNone}
      [] k = "reasoning" -> {PyNum(7), PyNone}
      [] k = "keywords" -> {PyList(<<>>), PyList(<<"k1", "k2", "k3", "k4", "k5", "k6">>),
                            PyList(<<1, 2, 3>>), PyStr("rude")}
      [] k = "severity" -> {PyStr("LOW"), PyStr("SEVERE"), PyNone}
      [] k = "requires_human_review" -> {PyBool(FALSE), PyStr("yes"), PyNone}
      [] k = "suggested_actions" -> {PyList(<<>>), PyStr("escalate")}
      [] k = "secondary_category" -> {PyStr("HEALTH"), PyStr("BOGUS"), PyStr("")}

JsonBodies ==
    {ValidBody}
        \cup {Without(ValidBody, k) : k \in DOMAIN ValidBody}
        \cup UNION {{[ValidBody EXCEPT ![k] = x] : x \in FieldValues(k)} : k \in DOMAIN ValidBody}

\* What self.client.messages.create and json.loads can produce: the call raises,
\* the response has no content block, the body is no JSON, the JSON is no object,
\* or the JSON is an object.
ProviderResponses ==
    {[kind |-> "raise"], [kind |-> "empty"], [kind |-> "nonjson"],
     [kind |-> "json", value |-> PyList(<<>>)]}
        \cup {[kind |-> "json", value |-> [t |-> "dict", v |-> b]] : b \in JsonBodies}

\* float(x)
ToFloat(x) ==
    CASE x.t = "num" -> [ok |-> TRUE, v |-> x.v]
      [] x.t = "bool" -> [ok |-> TRUE, v |-> IF x.v THEN 100 ELSE 0]
      [] x.t = "str" -> IF x.v = "0.5" THEN [ok |-> TRUE, v |-> 50] ELSE [ok |-> FALSE]
      [] OTHER -> [ok |-> FALSE]

\* Enum[x] finds a member.
EnumHas(enum, x) == x.t = "str" /\ x.v \in enum

\* Python truthiness.
Truthy(x) ==
    CASE x.t = "null" -> FALSE
      [] x.t = "bool" -> x.v
      [] x.t = "num" -> x.v # 0
      [] x.t = "str" -> x.v # ""
      [] x.t = "list" -> x.v # <<>>
      [] OTHER -> TRUE

\* result_json.get('secondary_category') is truthy.
HasSecondary(obj) ==
    "secondary_category" \in DOMAIN obj /\ Truthy(obj["secondary_category"])

\* The try block of _classify_with_ai raises (and the except block re-raises).
AIRaises(r) ==
    \/ r.kind # "json"
    \/ r.value.t # "dict"
    \/ LET obj == r.value.v
       IN  \/ "category" \notin DOMAIN obj
           \/ ~EnumHas(ComplaintCategory, obj["category"])
           \/ "confidence" \notin DOMAIN obj
           \/ ~ToFloat(obj["confidence"]).ok
           \/ "reasoning" \notin DOMAIN obj
           \/ "keywords" \notin DOMAIN obj
           \/ "severity" \notin DOMAIN obj
           \/ ~EnumHas(SeverityLevel, obj["severity"])
           \/ "requires_human_review" \notin DOMAIN obj
           \/ "suggested_actions" \notin DOMAIN obj
           \/ HasSecondary(obj) /\ ~EnumHas(ComplaintCategory, obj["secondary_category"])

\* The ClassificationResult _classify_with_ai builds when it does not raise.
AIResult(r) ==
    LET obj == r.value.v
    IN  [category |-> obj["category"].v,
         confidence |-> ToFloat(obj["confidence"]).v,
         reasoning |-> obj["reasoning"],
         keywords |-> obj["keywords"],
         severity |-> obj["severity"].v,
         requires_human_review |-> obj["requires_human_review"],
         suggested_actions |-> obj["suggested_actions"],
         secondary_category |-> IF HasSecondary(obj) THEN obj["secondary_category"].v
                                ELSE "None"]

-----------------------------------------------------------------------------
(* classify_single *)

NoResult == [category |-> "None"]
NoResponse == [kind |-> "none"]
NoMetrics == [total_processed |-> -1]

NoText == <<"-">>
NoFeatures == [text_length |-> -1]

PreIdle ==
    /\ raw = NoText
    /\ cleaned = NoText
    /\ recleaned = NoText
    /\ features = NoFeatures
    /\ predicted_category = "None"
    /\ ppc = "idle"

BatchIdle ==
    /\ complaints = <<>>
    /\ idx = 0
    /\ results = <<>>
    /\ complaint_id = [bound |-> FALSE]
    /\ sleeps = <<>>
    /\ bpc = "idle"
    /\ metrics = NoMetrics

\* Longest complaint text, in words, of the classify_single specification.
MaxClassifyWords == 2

ClassifyVocab == {"Rude", "error", "EMERGENCY"}

InitClassify ==
    /\ client \in BOOLEAN
    /\ text \in SeqsUpTo(ClassifyVocab, MaxClassifyWords)
    /\ pc = "start"
    /\ response = NoResponse
    /\ result = NoResult
    /\ path = "none"
    /\ BatchIdle
    /\ PreIdle

InitRules ==
    /\ client = FALSE
    /\ text \in SeqsUpTo(Vocab, MaxWords)
    /\ pc = "start"
    /\ response = NoResponse
    /\ result = NoResult
    /\ path = "none"
    /\ BatchIdle
    /\ PreIdle

\* A provider failure leaves classify_single as an exception.
CallAIPropagates ==
    /\ pc = "start"
    /\ client
    /\ \E r \in ProviderResponses :
        /\ response' = r
        /\ IF AIRaises(r)
           THEN pc' = "raised" /\ UNCHANGED <<result, path>>
           ELSE result' = AIResult(r) /\ path' = "ai" /\ pc' = "done"
    /\ UNCHANGED <<client, text>>
    /\ UNCHANGED batchVars
    /\ UNCHANGED preVars

\* classify_single, the `if self.client` block: the external-model attempt.
CallAI ==
    /\ pc = "start"
    /\ client
    /\ \E r \in ProviderResponses :
        /\ response' = r
        /\ IF AIRaises(r)
           THEN pc' = "fallback" /\ UNCHANGED <<result, path>>
           ELSE result' = AIResult(r) /\ path' = "ai" /\ pc' = "done"
    /\ UNCHANGED <<client, text>>
    /\ UNCHANGED batchVars
    /\ UNCHANGED preVars

\* classify_single past the `if self.client` block: the rule-based scorer.
RunRules ==
    /\ \/ pc = "start" /\ ~client
       \/ pc = "fallback"
    /\ result' = ClassifyWithRules(text)
    /\ path' = "rules"
    /\ pc' = "done"
    /\ UNCHANGED <<client, text, response>>
    /\ UNCHANGED batchVars
    /\ UNCHANGED preVars

NextClassify == CallAI \/ RunRules

SpecClassify == InitClassify /\ [][NextClassify]_vars

NextRules == RunRules

SpecRules == InitRules /\ [][NextRules]_vars

-----------------------------------------------------------------------------
(* classify_batch *)

\* classify_single as classify_batch calls it, with the provider's response r:
\* it raises when the rule-based scorer runs on a text that is no string
\* (text_lower = complaint_text.lower()).
SingleRaises(has_client, complaint_text, r) ==
    (~has_client \/ AIRaises(r)) /\ complaint_text.t # "str"

SingleResult(has_client, complaint_text, r) ==
    IF has_client /\ ~AIRaises(r) THEN AIResult(r) ELSE ClassifyWithRules(complaint_text.v)

\* f'{idx:04d}'
Digit(d) == <<"0", "1", "2", "3", "4", "5", "6", "7", "8", "9">>[d + 1]
Format04d(n) ==
    <<Digit((n \div 1000) % 10), Digit((n \div 100) % 10), Digit((n \div 10) % 10),
      Digit(n % 10)>>

\* f'COMPLAINT_{idx:04d}'
GeneratedId(n) == <<"COMPLAINT_">> \o Format04d(n)

\* dict.get(key, default)
Get(d, k, default) == IF k \in DOMAIN d THEN d[k] ELSE default

PyDict(d) == [t |-> "dict", v |-> d]

\* The items a batch is drawn from: a dict with id, text and label, a dict
\* without id whose label differs from the prediction, an unlabeled dict, a dict
\* whose text is None, a dict with another label, and an item that is no dict
\* (None).
ComplaintPool ==
    {PyDict([id |-> <<"A">>, text |-> PyStr(<<"Rude">>), category |-> "CONDUCT"]),
     PyDict([text |-> PyStr(<<"error", "maybe">>), category |-> "CONDUCT"]),
     PyDict([id |-> <<"B">>, text |-> PyStr(<<"doctor">>)]),
     PyDict([id |-> <<"C">>, text |-> PyNone]),
     PyDict([id |-> <<"D">>, text |-> PyStr(<<"drunk">>), category |-> "HEALTH"]),
     PyNone}

\* The provider responses of a batch run.
BatchResponses ==
    {[kind |-> "raise"], [kind |-> "json", value |-> PyDict(ValidBody)]}

AttributeErrorGet == "'NoneType' object has no attribute 'get'"
AttributeErrorLower == "'NoneType' object has no attribute 'lower'"

\* The record of a classified complaint.
ResultDict(cid, complaint, complaint_text, res) ==
    LET base == [complaint_id |-> cid,
                 original_text |-> complaint_text,
                 classification |->
                     [primary_category |-> res.category,
                      secondary_category |-> res.secondary_category,
                      confidence |-> res.confidence,
                      severity |-> res.severity,
                      requires_review |-> res.requires_human_review],
                 analysis |->
                     [reasoning |-> res.reasoning,
                      keywords |-> res.keywords,
                      suggested_actions |-> res.suggested_actions]]
    IN  IF "category" \in DOMAIN complaint
        THEN [k \in (DOMAIN base) \cup {"actual_category"} |->
                  IF k = "actual_category" THEN complaint["category"] ELSE base[k]]
        ELSE base

\* The record the except block appends.
ErrorDict(cid, message) == [complaint_id |-> cid, error |-> message]

InitBatch ==
    /\ client \in BOOLEAN
    /\ complaints \in SeqsUpTo(ComplaintPool, MaxBatch)
    /\ idx = 0
    /\ results = <<>>
    /\ complaint_id = [bound |-> FALSE]
    /\ sleeps = <<>>
    /\ bpc = "loop"
    /\ metrics = NoMetrics
    /\ text = <<>>
    /\ pc = "idle"
    /\ response = NoResponse
    /\ result = NoResult
    /\ path = "none"
    /\ PreIdle

\* The except block: it reads complaint_id, which is unbound when no item of
\* this call has assigned it yet (the handler then raises UnboundLocalError out
\* of classify_batch).
Except(cid, message) ==
    IF cid.bound
    THEN /\ results' = Append(results, ErrorDict(cid.v, message))
         /\ idx' = idx + 1
         /\ bpc' = "loop"
    ELSE /\ bpc' = "raised"
         /\ UNCHANGED <<results, idx>>

\* The delay test written idx < total: a delay follows the last item too.
ProcessItemSleepsAfterLast ==
    /\ bpc = "loop"
    /\ idx < Len(complaints)
    /\ \E r \in (IF client THEN BatchResponses ELSE {NoResponse}) :
        LET complaint == complaints[idx + 1]
        IN  IF complaint.t # "dict"
            THEN \* complaint.get raises before complaint_id is assigned
                 /\ Except(complaint_id, AttributeErrorGet)
                 /\ UNCHANGED <<complaint_id, sleeps>>
            ELSE LET cid == Get(complaint.v, "id", GeneratedId(idx))
                     complaint_text == Get(complaint.v, "text", PyStr(<<>>))
                 IN  /\ complaint_id' = [bound |-> TRUE, v |-> cid]
                     /\ IF SingleRaises(client, complaint_text, r)
                        THEN /\ Except(complaint_id', AttributeErrorLower)
                             /\ UNCHANGED sleeps
                        ELSE /\ results' = Append(results,
                                     ResultDict(cid, complaint.v, complaint_text,
                                                SingleResult(client, complaint_text, r)))
                             /\ sleeps' = IF client /\ idx < Len(complaints)
                                          THEN Append(sleeps, idx)
                                          ELSE sleeps
                             /\ idx' = idx + 1
                             /\ bpc' = "loop"
    /\ UNCHANGED <<client, complaints, metrics>>
    /\ UNCHANGED classifyVars
    /\ UNCHANGED preVars

\* One iteration of the loop of classify_batch, try and except.
ProcessItem ==
    /\ bpc = "loop"
    /\ idx < Len(complaints)
    /\ \E r \in (IF client THEN BatchResponses ELSE {NoResponse}) :
        LET complaint == complaints[idx + 1]
        IN  IF complaint.t # "dict"
            THEN \* complaint.get raises before complaint_id is assigned
                 /\ Except(complaint_id, AttributeErrorGet)
                 /\ UNCHANGED <<complaint_id, sleeps>>
            ELSE LET cid == Get(complaint.v, "id", GeneratedId(idx))
                     complaint_text == Get(complaint.v, "text", PyStr(<<>>))
                 IN  /\ complaint_id' = [bound |-> TRUE, v |-> cid]
                     /\ IF SingleRaises(client, complaint_text, r)
                        THEN /\ Except(complaint_id', AttributeErrorLower)
                             /\ UNCHANGED sleeps
                        ELSE /\ results' = Append(results,
                                     ResultDict(cid, complaint.v, complaint_text,
                                                SingleResult(client, complaint_text, r)))
                             /\ sleeps' = IF client /\ idx < Len(complaints) - 1
                                          THEN Append(sleeps, idx)
                                          ELSE sleeps
                             /\ idx' = idx + 1
                             /\ bpc' = "loop"
    /\ UNCHANGED <<client, complaints, metrics>>
    /\ UNCHANGED classifyVars
    /\ UNCHANGED preVars

\* The loop is over: return results.
ReturnResults ==
    /\ bpc = "loop"
    /\ idx = Len(complaints)
    /\ bpc' = "returned"
    /\ UNCHANGED <<client, complaints, idx, results, complaint_id, sleeps, metrics>>
    /\ UNCHANGED classifyVars
    /\ UNCHANGED preVars

-----------------------------------------------------------------------------
(* evaluate_accuracy *)

\* A Python dict with no key.
EmptyMap == [k \in {} |-> 0]

\* d[k] = v
Put(d, k, v) == [x \in (DOMAIN d) \cup {k} |-> IF x = k THEN v ELSE d[x]]

\* The quotient n / d of two ints, kept as the pair.
Frac(n, d) == [num |-> n, den |-> d]

\* The filter `'classification' in r and 'actual_category' in r`.
IsSuccessful(r) == "classification" \in DOMAIN r /\ "actual_category" \in DOMAIN r

\* successful_classifications counts every record instead of the filtered ones.
InitialMetricsCountsAll(rs, successful) ==
    [total_processed |-> Len(rs),
     successful_classifications |-> Len(rs),
     errors |-> Len(rs) - Len(successful),
     overall_accuracy |-> [num |-> 0, den |-> 1],
     category_metrics |-> EmptyMap,
     confidence_distribution |-> [high |-> 0, medium |-> 0, low |-> 0],
     severity_distribution |-> EmptyMap,
     review_required |-> 0]

\* The metrics dict as initialised, with the three counts set before the loop.
InitialMetrics(rs, successful) ==
    [total_processed |-> Len(rs),
     successful_classifications |-> Len(successful),
     errors |-> Len(rs) - Len(successful),
     overall_accuracy |-> Frac(0, 1),
     category_metrics |-> EmptyMap,
     confidence_distribution |-> [high |-> 0, medium |-> 0, low |-> 0],
     severity_distribution |-> EmptyMap,
     review_required |-> 0]

\* category_stats[actual]['total'] += 1 moved under `if predicted == actual`.
EvalStepTotalWhenCorrect(acc, r) ==
    LET predicted == r.classification.primary_category
        actual == r.actual_category
        confidence == r.classification.confidence
        severity == r.classification.severity
        hit == IF predicted = actual THEN 1 ELSE 0
        old == Get(acc.category_stats, actual, [total |-> 0, correct |-> 0])
        bucket == IF confidence > 80 THEN "high"
                  ELSE IF confidence >= 60 THEN "medium"
                  ELSE "low"
    IN  [correct |-> acc.correct + hit,
         category_stats |-> Put(acc.category_stats, actual,
                                [total |-> old.total + hit, correct |-> old.correct + hit]),
         confidence_distribution |->
             [acc.confidence_distribution EXCEPT ![bucket] = @ + 1],
         review_required |-> acc.review_required
                                 + (IF Truthy(r.classification.requires_review) THEN 1 ELSE 0),
         severity_distribution |->
             Put(acc.severity_distribution, severity,
                 Get(acc.severity_distribution, severity, 0) + 1)]

\* The body of `for result in successful`, on the loop's accumulators.
EvalStep(acc, r) ==
    LET predicted == r.classification.primary_category
        actual == r.actual_category
        confidence == r.classification.confidence
        severity == r.classification.severity
        hit == IF predicted = actual THEN 1 ELSE 0
        old == Get(acc.category_stats, actual, [total |-> 0, correct |-> 0])
        bucket == IF confidence > 80 THEN "high"
                  ELSE IF confidence >= 60 THEN "medium"
                  ELSE "low"
    IN  [correct |-> acc.correct + hit,
         category_stats |-> Put(acc.category_stats, actual,
                                [total |-> old.total + 1, correct |-> old.correct + hit]),
         confidence_distribution |->
             [acc.confidence_distribution EXCEPT ![bucket] = @ + 1],
         review_required |-> acc.review_required
                                 + (IF Truthy(r.classification.requires_review) THEN 1 ELSE 0),
         severity_distribution |->
             Put(acc.severity_distribution, severity,
                 Get(acc.severity_distribution, severity, 0) + 1)]

RECURSIVE EvalLoop(_, _, _)
EvalLoop(successful, n, acc) ==
    IF n > Len(successful) THEN acc
    ELSE EvalLoop(successful, n + 1, EvalStep(acc, successful[n]))

\* The overall accuracy divided by len(results) instead of len(successful).
EvaluateAccuracyOverAll(rs) ==
    LET successful == SelectSeq(rs, IsSuccessful)
        m0 == InitialMetrics(rs, successful)
        acc == EvalLoop(successful, 1,
                        [correct |-> 0,
                         category_stats |-> EmptyMap,
                         confidence_distribution |-> m0.confidence_distribution,
                         review_required |-> 0,
                         severity_distribution |-> EmptyMap])
    IN  IF successful = <<>> THEN m0
        ELSE [m0 EXCEPT
                 !.overall_accuracy = Frac(acc.correct, Len(rs)),
                 !.category_metrics =
                     [c \in DOMAIN acc.category_stats |->
                         [accuracy |-> Frac(acc.category_stats[c].correct,
                                            acc.category_stats[c].total),
                          total |-> acc.category_stats[c].total,
                          correct |-> acc.category_stats[c].correct]],
                 !.confidence_distribution = acc.confidence_distribution,
                 !.review_required = acc.review_required,
                 !.severity_distribution = acc.severity_distribution]

EvaluateAccuracy(rs) ==
    LET successful == SelectSeq(rs, IsSuccessful)
        m0 == InitialMetrics(rs, successful)
        acc == EvalLoop(successful, 1,
                        [correct |-> 0,
                         category_stats |-> EmptyMap,
                         confidence_distribution |-> m0.confidence_distribution,
                         review_required |-> 0,
                         severity_distribution |-> EmptyMap])
    IN  IF successful = <<>> THEN m0
        ELSE [m0 EXCEPT
                 !.overall_accuracy = Frac(acc.correct, Len(successful)),
                 !.category_metrics =
                     [c \in DOMAIN acc.category_stats |->
                         [accuracy |-> Frac(acc.category_stats[c].correct,
                                            acc.category_stats[c].total),
                          total |-> acc.category_stats[c].total,
                          correct |-> acc.category_stats[c].correct]],
                 !.confidence_distribution = acc.confidence_distribution,
                 !.review_required = acc.review_required,
                 !.severity_distribution = acc.severity_distribution]

\* evaluate_accuracy on the list classify_batch returned.
Evaluate ==
    /\ bpc = "returned"
    /\ metrics' = EvaluateAccuracy(results)
    /\ bpc' = "evaluated"
    /\ UNCHANGED <<client, complaints, idx, results, complaint_id, sleeps>>
    /\ UNCHANGED classifyVars
    /\ UNCHANGED preVars

Next == ProcessItem \/ ReturnResults \/ Evaluate

Spec == InitBatch /\ [][Next]_vars

-----------------------------------------------------------------------------
(* What the words of Vocab are, read off the keyword lists of the source *)

Words(t) == {t[i] : i \in DOMAIN t}

ConductWords == {"Rude", "dismissive"}
CompetenceWords == {"error", "misdiagnosis"}
HighWords == {"EMERGENCY"}
MediumWords == {"pattern"}
AmbiguousWords == {"maybe"}

HasMentalHealth(t) == \E i \in 1..(Len(t) - 1) : t[i] = "mental" /\ t[i + 1] = "health"

ConductHits(t) == Cardinality(Words(t) \cap ConductWords)
CompetenceHits(t) == Cardinality(Words(t) \cap CompetenceWords)
HealthHits(t) == Cardinality(Words(t) \cap {"drunk"}) + (IF HasMentalHealth(t) THEN 1 ELSE 0)

-----------------------------------------------------------------------------
(* Claims about classify_batch and evaluate_accuracy *)

IsErrorRecord(r) == "error" \in DOMAIN r
IsClassified(r) == "classification" \in DOMAIN r

\* The id item i of the input list is known by: the caller's, or the generated one.
OwnId(i) ==
    IF complaints[i].t = "dict" /\ "id" \in DOMAIN complaints[i].v
    THEN complaints[i].v["id"]
    ELSE GeneratedId(i - 1)

\* C1: classify_batch never aborts on a per-item failure, a failure on the first
\* item included: it returns one record per input item in input order, an error
\* record for an item that is no dict and a populated classification record for
\* every item that is a dict with a string text.
C1_BatchNeverAborts ==
    /\ bpc # "raised"
    /\ bpc \in {"returned", "evaluated"} => Len(results) = Len(complaints)
    /\ \A i \in 1..Len(results) :
           /\ complaints[i].t # "dict" => IsErrorRecord(results[i])
           /\ (complaints[i].t = "dict"
                   /\ Get(complaints[i].v, "text", PyStr(<<>>)).t = "str") =>
                  /\ IsClassified(results[i])
                  /\ results[i].classification.primary_category \in ComplaintCategory

\* C2: every error record carries the complaint id of the item that failed (the
\* caller's, or COMPLAINT_ and the zero-padded index of that item), never the
\* id of another complaint.
C2_ErrorRecordCarriesOwnId ==
    \A i \in 1..Len(results) :
        IsErrorRecord(results[i]) => results[i].complaint_id = OwnId(i)

\* No record carries both a classification and a ground-truth label.
NoneQualify(rs) ==
    \A i \in 1..Len(rs) : ~(IsClassified(rs[i]) /\ "actual_category" \in DOMAIN rs[i])

AccuracyPartZero(m) ==
    /\ m.successful_classifications = 0
    /\ m.overall_accuracy.num = 0
    /\ m.overall_accuracy.den > 0
    /\ m.confidence_distribution = [high |-> 0, medium |-> 0, low |-> 0]
    /\ m.review_required = 0
    /\ DOMAIN m.category_metrics = {}
    /\ DOMAIN m.severity_distribution = {}

\* C10 as stated: when no record carries both a classification and a label,
\* evaluate_accuracy returns metrics whose every count and overall accuracy are
\* zero and whose per-category and severity maps are empty.
C10_AllCountsZeroWhenNoneQualify ==
    (bpc = "evaluated" /\ NoneQualify(results)) =>
        /\ AccuracyPartZero(metrics)
        /\ metrics.total_processed = 0
        /\ metrics.errors = 0

\* C10, amended: when no record carries both a classification and a label,
\* evaluate_accuracy returns (no division by zero) metrics with
\* successful_classifications, overall accuracy, the confidence buckets and
\* review_required zero and the per-category and severity maps empty, while
\* total_processed is the number of records given.
C10_AccuracyZeroWhenNoneQualify ==
    (bpc = "evaluated" /\ NoneQualify(results)) =>
        /\ AccuracyPartZero(metrics)
        /\ metrics.total_processed = Len(results)

C10_Witness ==
    /\ bpc = "evaluated"
    /\ NoneQualify(results)
    /\ \E i \in 1..Len(results) : IsErrorRecord(results[i])
    /\ \E i \in 1..Len(results) : IsClassified(results[i])
    /\ metrics.total_processed = 2
    /\ metrics.successful_classifications = 0

\* The records that carry both a prediction and a ground-truth label, and those
\* among them whose prediction is the label.
Qualifying(rs) ==
    {i \in 1..Len(rs) : IsClassified(rs[i]) /\ "actual_category" \in DOMAIN rs[i]}
Matching(rs) ==
    {i \in Qualifying(rs) : rs[i].classification.primary_category = rs[i].actual_category}
WithLabel(S, rs, c) == {i \in S : rs[i].actual_category = c}

\* The fraction f is n / d.
FracIs(f, n, d) == f.den > 0 /\ f.num * d = n * f.den

\* C11: overall_accuracy is the number of labeled, classified records whose
\* predicted primary category equals the label, divided by the number of labeled,
\* classified records; per actual label the accuracy is correct / total over the
\* records with that label; error records and unlabeled records do not count.
C11_AccuracyFromQualifyingRecords ==
    (bpc = "evaluated" /\ Qualifying(results) # {}) =>
        LET q == Qualifying(results)
            ok == Matching(results)
            labels == {results[i].actual_category : i \in q}
        IN  /\ FracIs(metrics.overall_accuracy, Cardinality(ok), Cardinality(q))
            /\ DOMAIN metrics.category_metrics = labels
            /\ \A c \in labels :
                   /\ metrics.category_metrics[c].total = Cardinality(WithLabel(q, results, c))
                   /\ metrics.category_metrics[c].correct = Cardinality(WithLabel(ok, results, c))
                   /\ FracIs(metrics.category_metrics[c].accuracy,
                             Cardinality(WithLabel(ok, results, c)),
                             Cardinality(WithLabel(q, results, c)))

C11_Witness ==
    /\ bpc = "evaluated"
    /\ Len(results) = 3
    /\ Cardinality(Qualifying(results)) = 2
    /\ Cardinality(Matching(results)) = 1
    /\ \E i \in 1..Len(results) : IsClassified(results[i]) /\ i \notin Qualifying(results)
    /\ metrics.overall_accuracy = Frac(1, 2)

\* C14: a delay follows an item only when a provider client is configured and
\* more items remain: none follows the last item, and a run without a client
\* performs none.
C14_DelayOnlyBetweenProviderCalls ==
    /\ \A k \in 1..Len(sleeps) : client /\ sleeps[k] < Len(complaints) - 1
    /\ ~client => sleeps = <<>>

C14_Witness ==
    /\ bpc = "returned"
    /\ client
    /\ Len(complaints) = 3
    /\ sleeps = <<0, 1>>

\* C17: the errors count of evaluate_accuracy is the number of error records of
\* the batch; classified complaints, labeled or not, are not counted as errors.
C17_ErrorsCountsErrorRecords ==
    bpc = "evaluated" =>
        metrics.errors = Cardinality({i \in 1..Len(results) : IsErrorRecord(results[i])})

RECURSIVE SumOver(_, _)
SumOver(f, S) ==
    IF S = {} THEN 0
    ELSE LET x == CHOOSE y \in S : TRUE IN f[x] + SumOver(f, S \ {x})

\* C18: total_processed = successful_classifications + errors; the three
\* confidence buckets, the severity counts and the per-category totals each sum to
\* successful_classifications; review_required is at most
\* successful_classifications; per category correct is at most total.
C18_MetricsAccounting ==
    bpc = "evaluated" =>
        LET n == metrics.successful_classifications
            cd == metrics.confidence_distribution
            cm == metrics.category_metrics
        IN  /\ metrics.total_processed = n + metrics.errors
            /\ cd.high + cd.medium + cd.low = n
            /\ SumOver(metrics.severity_distribution, DOMAIN metrics.severity_distribution) = n
            /\ SumOver([c \in DOMAIN cm |-> cm[c].total], DOMAIN cm) = n
            /\ metrics.review_required <= n
            /\ \A c \in DOMAIN cm : cm[c].correct <= cm[c].total

C18_Witness ==
    /\ bpc = "evaluated"
    /\ metrics.successful_classifications = 2
    /\ metrics.errors = 1
    /\ metrics.confidence_distribution = [high |-> 1, medium |-> 1, low |-> 0]
    /\ Cardinality(DOMAIN metrics.category_metrics) = 2
    /\ Cardinality(DOMAIN metrics.severity_distribution) = 2

-----------------------------------------------------------------------------
(* Claims about classify_single and the provider *)

\* Every field of a ClassificationResult is set, with the enumerations' values.
Populated(r) ==
    /\ DOMAIN r = {"category", "confidence", "reasoning", "keywords", "severity",
                   "requires_human_review", "suggested_actions", "secondary_category"}
    /\ r.category \in ComplaintCategory
    /\ r.severity \in SeverityLevel

\* C3: with a provider client configured, a failed external-model attempt is never
\* propagated: classify_single ends with the fully populated result of the
\* rule-based scorer for the same text, and the rule-based scorer runs only after
\* the attempt failed or when no client is configured.
C3_ProviderFailureFallsBack ==
    /\ pc \in {"start", "fallback", "done"}
    /\ (pc = "done" /\ client /\ AIRaises(response)) =>
           /\ path = "rules"
           /\ Populated(result)
           /\ result = ClassifyWithRules(text)
    /\ path = "rules" => (~client \/ (response # NoResponse /\ AIRaises(response)))
    /\ (client /\ pc = "start") => path = "none"

C3_Witness ==
    /\ pc = "done"
    /\ client
    /\ response.kind = "json"
    /\ AIRaises(response)
    /\ path = "rules"
    /\ text = <<"Rude">>
    /\ result.category = "CONDUCT"

\* The response shape the provider contract requires.
IsStringList(x) == x.t = "list" /\ \A i \in DOMAIN x.v : x.v[i] \in STRING
ConformsToShape(r) ==
    /\ r.kind = "json"
    /\ r.value.t = "dict"
    /\ LET obj == r.value.v
       IN  /\ RequiredKeys \subseteq DOMAIN obj
           /\ EnumHas(ComplaintCategory, obj["category"])
           /\ obj["confidence"].t = "num"
           /\ obj["reasoning"].t = "str"
           /\ IsStringList(obj["keywords"])
           /\ EnumHas(SeverityLevel, obj["severity"])
           /\ obj["requires_human_review"].t = "bool"
           /\ IsStringList(obj["suggested_actions"])
           /\ "secondary_category" \in DOMAIN obj =>
                  \/ obj["secondary_category"].t = "null"
                  \/ EnumHas(ComplaintCategory, obj["secondary_category"])

\* C4: every deviation of the provider response from the required shape (missing
\* key, wrong type, unknown enum value, non-JSON body) triggers the rule-based
\* fallback; no result is built from such a response.
C4_EveryDeviationFallsBack ==
    (pc = "done" /\ client /\ ~ConformsToShape(response)) => path = "rules"

\* C5: the confidence of every result classify_single returns lies in [0,1].
C5_ConfidenceInUnitInterval ==
    pc = "done" => (0 <= result.confidence /\ result.confidence <= 100)

\* C6: the keywords list of every result classify_single returns has at most 5
\* entries.
C6_KeywordsAtMostFive ==
    (pc = "done" /\ result.keywords.t = "list") => Len(result.keywords.v) <= KeywordCap

-----------------------------------------------------------------------------
(* Claims about the rule-based scorer *)

\* C7: with a nonzero score the rule-based scorer picks the category of greatest
\* score, ties broken CONDUCT > COMPETENCE > HEALTH.
C7_TiesConductFirst ==
    LET c == ConductHits(text)
        k == CompetenceHits(text)
        h == HealthHits(text)
        m == Max3(c, k, h)
    IN  (pc = "done" /\ path = "rules" /\ m > 0) =>
            result.category = (IF c = m THEN "CONDUCT"
                               ELSE IF k = m THEN "COMPETENCE"
                               ELSE "HEALTH")

\* C8: severity is HIGH when a high-severity keyword is present whatever medium
\* or low keywords are present too, otherwise MEDIUM when a medium keyword is
\* present, otherwise LOW; the URGENT action is the first suggested action
\* exactly when severity is HIGH.
C8_SeverityPrecedence ==
    (pc = "done" /\ path = "rules") =>
        /\ result.severity = (IF Words(text) \cap HighWords # {} THEN "HIGH"
                              ELSE IF Words(text) \cap MediumWords # {} THEN "MEDIUM"
                              ELSE "LOW")
        /\ (result.suggested_actions.v[1] = URGENT) <=> (result.severity = "HIGH")

C8_Witness ==
    /\ pc = "done"
    /\ path = "rules"
    /\ "EMERGENCY" \in Words(text)
    /\ "pattern" \in Words(text)
    /\ "minor" \in Words(text)
    /\ result.severity = "HIGH"
    /\ result.suggested_actions.v[1] = URGENT

\* C9: requires_human_review is true exactly when the text has an ambiguous
\* phrase or the confidence is below 0.6; an ambiguous phrase forces review
\* whatever the category, and one keyword hit (confidence 0.6) without an
\* ambiguous phrase requires none.
C9_ReviewIffAmbiguousOrLowConfidence ==
    LET hits == ConductHits(text) + CompetenceHits(text) + HealthHits(text)
        ambiguous == Words(text) \cap AmbiguousWords # {}
    IN  (pc = "done" /\ path = "rules") =>
            /\ result.requires_human_review = PyBool(ambiguous \/ result.confidence < 60)
            /\ ambiguous => result.requires_human_review.v
            /\ (hits = 1 /\ ~ambiguous) =>
                   (result.confidence = 60 /\ ~result.requires_human_review.v)

C9_Witness ==
    /\ pc = "done"
    /\ path = "rules"
    /\ text = <<"doctor", "error">>
    /\ result.confidence = 60
    /\ result.requires_human_review = PyBool(FALSE)


-----------------------------------------------------------------------------
\* meditriage-preprocessor.py: the feature normalisation of extract_features
\* and the baseline predictor _predict_category.

MaxCount == 4

\* f > n/d and f < n/d for a ratio f and a decimal literal n/d.
FracGt(f, n, d) == f.num * d > n * f.den
FracLt(f, n, d) == f.num * d < n * f.den
FracGe(f, g) == f.num * g.den >= g.num * f.den

\* The features dict as built by the dict literal of extract_features, for the
\* fields the normalisation and the predictor read; the remaining fields are
\* those of a forty-word, three-sentence complaint.
CountedFeatures ==
    { [text_length |-> 40, sentence_count |-> 3,
       conduct_score |-> c, competence_score |-> k, health_score |-> h,
       severity_high_count |-> sh, severity_medium_count |-> sm,
       severity_low_count |-> 0,
       has_temporal_pattern |-> tp, has_progression |-> pr,
       is_urgent |-> 0, emotional_words |-> 0] :
         c \in 0..MaxCount, k \in 0..MaxCount, h \in 0..MaxCount,
         sh \in 0..1, sm \in 0..1, tp \in 0..1, pr \in 0..1 }

Ratio(score, total_score) == IF total_score > 0 THEN Frac(score, total_score) ELSE Frac(0, 1)

EstimatedSeverity(f) ==
    IF f.severity_high_count > 0 THEN "HIGH"
    ELSE IF f.severity_medium_count > 0 \/ f.has_temporal_pattern # 0 THEN "MEDIUM"
    ELSE "LOW"

\* The tail of extract_features: normalised scores and the likely severity.
Normalise(f) ==
    LET total_score == f.conduct_score + f.competence_score + f.health_score
    IN  [conduct_ratio |-> Ratio(f.conduct_score, total_score),
         competence_ratio |-> Ratio(f.competence_score, total_score),
         health_ratio |-> Ratio(f.health_score, total_score),
         estimated_severity |-> EstimatedSeverity(f)] @@ f

\* max(ratios, key=ratios.get): the first key of the dict, in insertion order,
\* whose ratio is the largest.
MaxKey(conduct, competence, health) ==
    IF FracGe(conduct, competence) /\ FracGe(conduct, health) THEN "CONDUCT"
    ELSE IF FracGe(competence, health) THEN "COMPETENCE"
    ELSE "HEALTH"

MaxRatio(conduct, competence, health) ==
    IF FracGe(conduct, competence) /\ FracGe(conduct, health) THEN conduct
    ELSE IF FracGe(competence, health) THEN competence
    ELSE health

\* The health override tested after the floor and the monitoring check.
PredictCategoryOverrideLast(f) ==
    LET max_ratio == MaxRatio(f.conduct_ratio, f.competence_ratio, f.health_ratio)
    IN  IF FracLt(max_ratio, 3, 10) THEN "NEEDS_REVIEW"
        ELSE IF f.has_temporal_pattern # 0 /\ f.has_progression # 0 THEN "MONITORING"
        ELSE IF FracGt(f.health_ratio, 4, 10) /\ f.estimated_severity = "HIGH"
             THEN "HEALTH"
        ELSE MaxKey(f.conduct_ratio, f.competence_ratio, f.health_ratio)

\* The floor at 0.34 instead of 0.3.
PredictCategoryHigherFloor(f) ==
    IF FracGt(f.health_ratio, 4, 10) /\ f.estimated_severity = "HIGH" THEN "HEALTH"
    ELSE
        LET max_ratio == MaxRatio(f.conduct_ratio, f.competence_ratio, f.health_ratio)
        IN  IF FracLt(max_ratio, 34, 100) THEN "NEEDS_REVIEW"
            ELSE IF f.has_temporal_pattern # 0 /\ f.has_progression # 0 THEN "MONITORING"
            ELSE MaxKey(f.conduct_ratio, f.competence_ratio, f.health_ratio)

PredictCategory(f) ==
    IF FracGt(f.health_ratio, 4, 10) /\ f.estimated_severity = "HIGH" THEN "HEALTH"
    ELSE
        LET max_ratio == MaxRatio(f.conduct_ratio, f.competence_ratio, f.health_ratio)
        IN  IF FracLt(max_ratio, 3, 10) THEN "NEEDS_REVIEW"
            ELSE IF f.has_temporal_pattern # 0 /\ f.has_progression # 0 THEN "MONITORING"
            ELSE MaxKey(f.conduct_ratio, f.competence_ratio, f.health_ratio)

\* extract_features has built the dict literal for some complaint.
InitPredict ==
    /\ client = FALSE
    /\ text = <<>>
    /\ pc = "idle"
    /\ response = NoResponse
    /\ result = NoResult
    /\ path = "none"
    /\ BatchIdle
    /\ raw = NoText
    /\ cleaned = NoText
    /\ recleaned = NoText
    /\ features \in CountedFeatures
    /\ predicted_category = "None"
    /\ ppc = "counted"

NormaliseFeatures ==
    /\ ppc = "counted"
    /\ features' = Normalise(features)
    /\ ppc' = "extracted"
    /\ UNCHANGED <<raw, cleaned, recleaned, predicted_category>>
    /\ UNCHANGED <<client, classifyVars, batchVars>>

Predict ==
    /\ ppc = IF raw = NoText THEN "extracted" ELSE "cleaned"
    /\ predicted_category' = PredictCategory(features)
    /\ ppc' = "predicted"
    /\ UNCHANGED <<raw, cleaned, recleaned, features>>
    /\ UNCHANGED <<client, classifyVars, batchVars>>

NextPredict == NormaliseFeatures \/ Predict

SpecPredict == InitPredict /\ [][NextPredict]_vars

-----------------------------------------------------------------------------
\* meditriage-preprocessor.py: clean_text.
\*
\* A text is a sequence of atoms.  An atom is either a maximal run of word
\* characters ([A-Za-z0-9_]), written as the run itself, or one character that
\* is not a word character.  Two runs are never adjacent, so every \b of the
\* patterns falls between two atoms and every match covers whole atoms.

MaxPieces == 3

Separators == {" ", "/", ",", "@", ".", "-", "[", "]"}

\* The runs of the vocabulary, by the character classes the patterns use.
Capitalised == {"John", "Smith", "Jan"}                      \* [A-Z][a-z]+
UpperOrDigit3 == {"REF", "NAME", "NUMBER", "DATE", "EMAIL", "PHONE",
                  "2024", "555", "123", "4567", "12345"}     \* [A-Z0-9]{3,}
MonthWords == {"Jan"}                                        \* (?:Jan|...)[a-z]*
Alpha2 == {"John", "Smith", "Jan", "rude", "urgent", "com", "REF", "ID",
           "NAME", "NUMBER", "DATE", "EMAIL", "PHONE"}       \* [A-Z|a-z]{2,}

\* The length of a run of digits, 0 for any other atom.
DigitLen(a) ==
    CASE a = "5" -> 1
      [] a \in {"12", "31", "24"} -> 2
      [] a \in {"555", "123"} -> 3
      [] a \in {"2024", "4567"} -> 4
      [] a = "12345" -> 5
      [] OTHER -> 0

IsRun(a) == a \notin Separators

\* The pieces complaints are written from, and the texts of at most MaxPieces
\* pieces in which no two runs touch.
Pieces ==
    { <<"John", " ", "Smith">>,
      <<"12", "/", "31", "/", "2024">>,
      <<"12", "/", "31", "/", "24">>,
      <<"Jan", " ", "5", ",", " ", "2024">>,
      <<"a", "@", "b", ".", "com">>,
      <<"555", "-", "123", "-", "4567">>,
      <<"REF">>, <<"12345">>, <<"rude">>, <<"urgent">>,
      <<" ">>, <<".">> }

RECURSIVE Flatten(_)
Flatten(ps) == IF ps = <<>> THEN <<>> ELSE Head(ps) \o Flatten(Tail(ps))

WellFormed(t) == \A i \in 1..(Len(t) - 1) : ~(IsRun(t[i]) /\ IsRun(t[i + 1]))

RawTexts == { t \in { Flatten(ps) : ps \in SeqsUpTo(Pieces, MaxPieces) } : WellFormed(t) }

\* The atom at position i, or the end of the text.
At(t, i) == IF i \in 1..Len(t) THEN t[i] ELSE "$"

\* \s+ : the number of blanks from position i on.
RECURSIVE Blanks(_, _)
Blanks(t, i) == IF At(t, i) = " " THEN 1 + Blanks(t, i + 1) ELSE 0

\* The number of consecutive atoms from position i on that are runs or
\* belong to S.
RECURSIVE Chain(_, _, _)
Chain(t, i, S) ==
    IF i \in 1..Len(t) /\ (IsRun(t[i]) \/ t[i] \in S) THEN 1 + Chain(t, i + 1, S) ELSE 0

\* \b[A-Z][a-z]+\s+[A-Z][a-z]+\b
NameLen(t, i) ==
    LET b == Blanks(t, i + 1)
    IN  IF At(t, i) \in Capitalised /\ b >= 1 /\ At(t, i + 1 + b) \in Capitalised
        THEN b + 2 ELSE 0

\* \b[A-Z0-9]{3,}\b
IdLen(t, i) == IF At(t, i) \in UpperOrDigit3 THEN 1 ELSE 0

\* \b\d{3,}\b
NumberLen(t, i) == IF DigitLen(At(t, i)) >= 3 THEN 1 ELSE 0

\* \b\d{1,2}/\d{1,2}/\d{2,4}\b
DateLen(t, i) ==
    IF /\ DigitLen(At(t, i)) \in 1..2
       /\ At(t, i + 1) = "/"
       /\ DigitLen(At(t, i + 2)) \in 1..2
       /\ At(t, i + 3) = "/"
       /\ DigitLen(At(t, i + 4)) \in 2..4
    THEN 5 ELSE 0

\* \b(?:Jan|...|Dec)[a-z]*\s+\d{1,2},?\s+\d{4}\b
MonthDateLen(t, i) ==
    LET b1 == Blanks(t, i + 1)
        d == i + 1 + b1
        c == IF At(t, d + 1) = "," THEN 1 ELSE 0
        b2 == Blanks(t, d + 1 + c)
        y == d + 1 + c + b2
    IN  IF /\ At(t, i) \in MonthWords
           /\ b1 >= 1
           /\ DigitLen(At(t, d)) \in 1..2
           /\ b2 >= 1
           /\ DigitLen(At(t, y)) = 4
        THEN y - i + 1 ELSE 0

\* \b[A-Za-z0-9._%+-]+@[A-Za-z0-9.-]+\.[A-Z|a-z]{2,}\b : the local part is the
\* chain up to the "@", the domain ends at the last dot of its chain that a
\* run of two or more letters follows.
EmailLen(t, i) ==
    LET starts == IsRun(At(t, i)) \/ (At(t, i) \in {".", "-"} /\ i > 1 /\ IsRun(At(t, i - 1)))
        l == Chain(t, i, {".", "-"})
        s == i + l + 1
        n == Chain(t, s, {".", "-"})
        dots == { p \in 2..(n - 1) : At(t, s + p - 1) = "." /\ At(t, s + p) \in Alpha2 }
    IN  IF i \in 1..Len(t) /\ starts /\ l >= 1 /\ At(t, i + l) = "@" /\ dots # {}
        THEN l + 2 + (CHOOSE p \in dots : \A q \in dots : q <= p) ELSE 0

\* \b\d{3}[-.]?\d{3}[-.]?\d{4}\b
PhoneLen(t, i) ==
    LET a == DigitLen(At(t, i))
        sep(j) == At(t, j) \in {"-", "."}
    IN  IF a = 10 THEN 1
        ELSE IF a = 6 /\ sep(i + 1) /\ DigitLen(At(t, i + 2)) = 4 THEN 3
        ELSE IF a = 3 /\ sep(i + 1) /\ DigitLen(At(t, i + 2)) = 7 THEN 3
        ELSE IF a = 3 /\ sep(i + 1) /\ DigitLen(At(t, i + 2)) = 3
                      /\ sep(i + 3) /\ DigitLen(At(t, i + 4)) = 4 THEN 5
        ELSE 0

Patterns == <<"NAME", "ID", "NUMBER", "DATE", "MONTHDATE", "EMAIL", "PHONE">>

MatchLen(pat, t, i) ==
    CASE pat = "NAME" -> NameLen(t, i)
      [] pat = "ID" -> IdLen(t, i)
      [] pat = "NUMBER" -> NumberLen(t, i)
      [] pat = "DATE" -> DateLen(t, i)
      [] pat = "MONTHDATE" -> MonthDateLen(t, i)
      [] pat = "EMAIL" -> EmailLen(t, i)
      [] pat = "PHONE" -> PhoneLen(t, i)

Token(pat) == <<"[", IF pat = "MONTHDATE" THEN "DATE" ELSE pat, "]">>

\* re.sub(pattern, token, text): the leftmost matches, not overlapping, from
\* position i on.
RECURSIVE SubFrom(_, _, _)
SubFrom(pat, t, i) ==
    IF i > Len(t) THEN <<>>
    ELSE LET n == MatchLen(pat, t, i)
         IN  IF n > 0 THEN Token(pat) \o SubFrom(pat, t, i + n)
             ELSE <<t[i]>> \o SubFrom(pat, t, i + 1)

\* The substitutions in the order of the source.
RECURSIVE SubAll(_, _)
SubAll(t, k) == IF k = 0 THEN t ELSE SubFrom(Patterns[k], SubAll(t, k - 1), 1)

\* text.split(): the maximal groups of atoms without a blank.
RECURSIVE NonBlanks(_, _)
NonBlanks(t, i) == IF i \in 1..Len(t) /\ t[i] # " " THEN 1 + NonBlanks(t, i + 1) ELSE 0

RECURSIVE Split(_)
Split(t) ==
    IF t = <<>> THEN <<>>
    ELSE IF Head(t) = " " THEN Split(Tail(t))
    ELSE LET n == NonBlanks(t, 1)
         IN  <<SubSeq(t, 1, n)>> \o Split(SubSeq(t, n + 1, Len(t)))

\* ' '.join(words)
RECURSIVE Join(_)
Join(ws) ==
    IF ws = <<>> THEN <<>>
    ELSE IF Len(ws) = 1 THEN ws[1]
    ELSE ws[1] \o <<" ">> \o Join(Tail(ws))

CleanText(t) ==
    IF t = <<>> THEN <<>>
    ELSE Join(Split(SubAll(t, Len(Patterns))))

\* str.lower(), atom by atom.
LowerAtom(a) ==
    CASE a = "John" -> "john" [] a = "Smith" -> "smith" [] a = "Jan" -> "jan"
      [] a = "REF" -> "ref" [] a = "ID" -> "id" [] a = "NAME" -> "name"
      [] a = "NUMBER" -> "number" [] a = "DATE" -> "date"
      [] a = "EMAIL" -> "email" [] a = "PHONE" -> "phone"
      [] OTHER -> a

LowerText(t) == [i \in 1..Len(t) |-> LowerAtom(t[i])]

-----------------------------------------------------------------------------
\* meditriage-preprocessor.py: extract_features on a text, and the steps of
\* process_batch for one complaint.

conduct_indicators ==
    {"unprofessional", "inappropriate", "boundary", "ethics", "misconduct",
     "behavior", "attitude", "communication", "disrespectful", "harassment",
     "discrimination", "rude", "dismissive", "hostile", "aggressive"}

competence_indicators ==
    {"misdiagnosis", "error", "mistake", "incorrect", "failed", "negligent",
     "competency", "skill", "knowledge", "treatment", "procedure", "assessment",
     "clinical", "wrong", "incompetent", "malpractice", "oversight"}

health_indicators ==
    {"impaired", "addiction", "mental health", "substance", "alcohol",
     "fitness", "illness", "condition", "wellbeing", "psychological",
     "psychiatric", "tired", "exhausted", "unstable", "intoxicated"}

indicator_severity_high == {"death", "serious", "critical", "emergency", "urgent"}
indicator_severity_medium == {"concerning", "repeated", "multiple", "pattern"}
indicator_severity_low == {"minor", "slight", "small"}

temporal_terms == {"repeatedly", "again", "multiple times", "pattern", "twice", "several"}
progression_terms == {"initially", "but then", "at first", "later", "eventually"}
urgent_terms == {"urgent", "emergency", "immediate", "asap"}
emotional_terms == {"angry", "upset", "frustrated", "worried", "scared", "anxious"}

TermAtoms(term) ==
    CASE term = "mental health" -> <<"mental", " ", "health">>
      [] term = "multiple times" -> <<"multiple", " ", "times">>
      [] term = "but then" -> <<"but", " ", "then">>
      [] term = "at first" -> <<"at", " ", "first">>
      [] OTHER -> <<term>>

\* term in cleaned.  No run of the vocabulary properly contains a term, so a
\* term occurs exactly where its atoms do.
HasTerm(t, term) ==
    LET k == TermAtoms(term)
    IN  \E i \in 1..(Len(t) - Len(k) + 1) : \A j \in 1..Len(k) : t[i + j - 1] = k[j]

TermCount(terms, t) == Cardinality({term \in terms : HasTerm(t, term)})
AnyTerm(terms, t) == IF \E term \in terms : HasTerm(t, term) THEN 1 ELSE 0

\* len(re.split(r'[.!?]+', text)): one more than the number of maximal runs of
\* sentence punctuation.
SentenceCount(t) ==
    1 + Cardinality({i \in 1..Len(t) : t[i] = "." /\ At(t, i - 1) # "."})

\* len(words) taken from the raw text instead of the cleaned one.
WordCountRaw(rawtext, cleanedtext) == Len(Split(rawtext))

\* words = cleaned.split(); len(words)
WordCount(rawtext, cleanedtext) == Len(Split(cleanedtext))

CountFeatures(rawtext) ==
    LET cleanedtext == LowerText(CleanText(rawtext))
    IN  [text_length |-> WordCount(rawtext, cleanedtext),
         sentence_count |-> SentenceCount(rawtext),
         conduct_score |-> TermCount(conduct_indicators, cleanedtext),
         competence_score |-> TermCount(competence_indicators, cleanedtext),
         health_score |-> TermCount(health_indicators, cleanedtext),
         severity_high_count |-> TermCount(indicator_severity_high, cleanedtext),
         severity_medium_count |-> TermCount(indicator_severity_medium, cleanedtext),
         severity_low_count |-> TermCount(indicator_severity_low, cleanedtext),
         has_temporal_pattern |-> AnyTerm(temporal_terms, cleanedtext),
         has_progression |-> AnyTerm(progression_terms, cleanedtext),
         is_urgent |-> AnyTerm(urgent_terms, cleanedtext),
         emotional_words |-> TermCount(emotional_terms, cleanedtext)]

ExtractFeatures(rawtext) == Normalise(CountFeatures(rawtext))

InitPre ==
    /\ client = FALSE
    /\ text = <<>>
    /\ pc = "idle"
    /\ response = NoResponse
    /\ result = NoResult
    /\ path = "none"
    /\ BatchIdle
    /\ raw \in RawTexts
    /\ cleaned = NoText
    /\ recleaned = NoText
    /\ features = NoFeatures
    /\ predicted_category = "None"
    /\ ppc = "start"

\* features = self.extract_features(complaint_text)
ExtractFeaturesStep ==
    /\ ppc = "start"
    /\ features' = ExtractFeatures(raw)
    /\ ppc' = "extracted"
    /\ UNCHANGED <<raw, cleaned, recleaned, predicted_category>>
    /\ UNCHANGED <<client, classifyVars, batchVars>>

\* 'cleaned_text': self.clean_text(complaint_text)
CleanTextStep ==
    /\ ppc = "extracted"
    /\ raw # NoText
    /\ cleaned' = CleanText(raw)
    /\ ppc' = "cleaned"
    /\ UNCHANGED <<raw, recleaned, features, predicted_category>>
    /\ UNCHANGED <<client, classifyVars, batchVars>>

\* clean_text applied to a text it has already cleaned.
CleanAgain ==
    /\ ppc = "cleaned"
    /\ recleaned' = CleanText(cleaned)
    /\ ppc' = "recleaned"
    /\ UNCHANGED <<raw, cleaned, features, predicted_category>>
    /\ UNCHANGED <<client, classifyVars, batchVars>>

NextPre == ExtractFeaturesStep \/ CleanTextStep \/ CleanAgain \/ Predict

SpecPre == InitPre /\ [][NextPre]_vars

-----------------------------------------------------------------------------
\* Claims about the predictor.

\* C15: whenever the health ratio exceeds 0.4 and the estimated severity is
\* HIGH, _predict_category returns HEALTH, whatever the other ratios and the
\* temporal-pattern and progression flags are.
C15_HealthOverride ==
    (ppc = "predicted" /\ FracGt(features.health_ratio, 4, 10)
                       /\ features.estimated_severity = "HIGH")
        => predicted_category = "HEALTH"

\* A HIGH complaint whose conduct ratio beats a health ratio above 0.4 and that
\* carries both flags is still predicted HEALTH.
C15_Witness ==
    /\ ppc = "predicted"
    /\ features.conduct_score > features.health_score
    /\ FracGt(features.health_ratio, 4, 10)
    /\ features.estimated_severity = "HIGH"
    /\ features.has_temporal_pattern = 1
    /\ features.has_progression = 1
    /\ predicted_category = "HEALTH"

\* C19: for features produced by extract_features the predictor returns
\* NEEDS_REVIEW exactly when the three category counts are all zero.
C19_NeedsReviewIffNoHits ==
    ppc = "predicted" =>
        (predicted_category = "NEEDS_REVIEW"
            <=> (features.conduct_score = 0 /\ features.competence_score = 0
                                            /\ features.health_score = 0))

\* An even three-way split, the smallest largest ratio, passes the floor.
C19_Witness ==
    /\ ppc = "predicted"
    /\ features.conduct_score = 1
    /\ features.competence_score = 1
    /\ features.health_score = 1
    /\ predicted_category # "NEEDS_REVIEW"

-----------------------------------------------------------------------------
\* Claims about clean_text and extract_features.

NumericDate4 == <<"12", "/", "31", "/", "2024">>
MonthNameDate4 == <<"Jan", " ", "5", ",", " ", "2024">>
DateToken == <<"[", "DATE", "]">>

\* C12: clean_text is idempotent: cleaning a cleaned text changes nothing.
\* Refuted: "12/31/24" cleans to "[DATE]", which cleans to "[[ID]]".
C12_CleanTextIdempotent == ppc = "recleaned" => recleaned = cleaned

\* C13: a numeric date with a four-digit year, and a month-name date with a
\* four-digit year, are redacted as a whole to [DATE].  Refuted: the ID pattern
\* takes the year first, "12/31/2024" cleans to "12/31/[ID]".
C13_DateRedactedWhole ==
    (ppc = "cleaned" /\ raw \in {NumericDate4, MonthNameDate4}) => cleaned = DateToken

\* C16 as stated: text_length is the number of whitespace-separated tokens of
\* the raw text.  Refuted: "John Smith" has two tokens and text_length 1.
C16_TextLengthCountsRawTokens ==
    ppc \in {"extracted", "cleaned"} => features.text_length = Len(Split(raw))

\* C16 amended: text_length is the number of whitespace-separated tokens of the
\* cleaned text, and only sentence_count is taken from the raw text.
C16_TextLengthCountsCleanedTokens ==
    ppc = "cleaned" =>
        /\ features.text_length = Len(Split(cleaned))
        /\ features.sentence_count = SentenceCount(raw)

\* A complaint whose two-word name was merged: fewer words counted than the raw
\* text has.
C16_Witness ==
    /\ ppc = "cleaned"
    /\ raw = <<"John", " ", "Smith", " ", "rude">>
    /\ Len(Split(raw)) = 3
    /\ features.text_length = 2

====
